---- MODULE Spec2Model ----
(***************************************************************************)
(* Model of backend.py: the time-series cache of /api/stock_data and the   *)
(* watchlist loader and query engine of /api/watchlist.                    *)
(***************************************************************************)
EXTENDS Integers, Sequences, FiniteSets, Bags, TLC

VARIABLES
    now,          \* time.time(), in whole seconds
    scache,       \* _stock_data_cache: key -> [data, timestamp]
    calls,        \* number of yf.download invocations so far
    stored,       \* history: (symbol, period, interval) -> entry last stored for it
    wcache,       \* _watchlist_cache: watchlist name -> table
    files,        \* the CSV files on disk: filename -> Missing or raw rows
    reads,        \* number of times a CSV file has been opened
    nreq,         \* number of /api/stock_data requests served so far
    resp,         \* the last request and its response
    thr           \* the request each worker thread is serving, and how far it got

vars == <<now, scache, calls, stored, wcache, files, reads, nreq, resp, thr>>
stockVars == <<now, scache, calls, stored>>
watchVars == <<wcache, files, reads>>

\* ---------------------------------------------------------------- bounds
MaxReq == 3
MaxNow == 2400
MaxReads == 2
TickSteps == {600, 1199}
FetchDelays == {0, 600}

\* ------------------------------------------------------- program constants
CACHE_DURATION_SECONDS == 30 * 60

Absent == <<"<absent>">>
DefaultTicker == <<"A", "A", "P", "L">>
DefaultPeriod == <<"6", "m", "o">>
DefaultInterval == <<"1", "d">>

\* request.args.get(name, default)
ArgsGet(v, default) == IF v = Absent THEN default ELSE v

\* str.upper(), character by character
UpperChar(c) ==
    CASE c = "a" -> "A"
      [] c = "b" -> "B"
      [] c = "m" -> "M"
      [] c = "o" -> "O"
      [] c = "d" -> "D"
      [] OTHER -> c

Upper(s) == [k \in DOMAIN s |-> UpperChar(s[k])]

\* f"{ticker}_{period}_{interval}"
CacheKey(ticker, period, interval) ==
    ticker \o <<"_">> \o period \o <<"_">> \o interval

TickerNeverEmpty(ticker) == FALSE

\* not ticker
TickerIsEmpty(ticker) == ticker = <<>>

IsFreshMinutes(cache, key, t) ==
    /\ key \in DOMAIN cache
    /\ t - cache[key].timestamp < 30

IsFreshInclusive(cache, key, t) ==
    /\ key \in DOMAIN cache
    /\ t - cache[key].timestamp <= 30 * 60

\* cache_key in cache and time.time() - cache[key]['timestamp'] < CACHE_DURATION_SECONDS
IsFresh(cache, key, t) ==
    /\ key \in DOMAIN cache
    /\ t - cache[key].timestamp < CACHE_DURATION_SECONDS

\* ----------------------------------------------- the Price History Source
\* a cell of the downloaded frame: a number, or an object float() rejects
Num(n) == [isnum |-> TRUE, v |-> n]
NotANumber == [isnum |-> FALSE, v |-> 0]

Row1 == [idx |-> <<2024, 1, 5>>, Open |-> Num(10), High |-> Num(12),
         Low |-> Num(9), Close |-> Num(11)]
Row2 == [idx |-> <<2024, 11, 25>>, Open |-> Num(11), High |-> Num(15),
         Low |-> Num(11), Close |-> Num(14)]
RowBad == [idx |-> <<2024, 11, 26>>, Open |-> NotANumber, High |-> Num(15),
           Low |-> Num(11), Close |-> Num(14)]

Frames == {<<>>, <<Row1>>, <<Row1, Row2>>, <<Row1, RowBad>>}

\* yf.download either raises or returns a frame
Failure == [raised |-> TRUE, frame |-> <<>>]
Returned(frame) == [raised |-> FALSE, frame |-> frame]
SourceOutcomes == {Failure} \cup {Returned(f) : f \in Frames}

Digit(n) == CASE n = 0 -> "0" [] n = 1 -> "1" [] n = 2 -> "2" [] n = 3 -> "3"
              [] n = 4 -> "4" [] n = 5 -> "5" [] n = 6 -> "6" [] n = 7 -> "7"
              [] n = 8 -> "8" [] n = 9 -> "9"

Pad2(n) == <<Digit((n \div 10) % 10), Digit(n % 10)>>
Pad4(n) == <<Digit((n \div 1000) % 10), Digit((n \div 100) % 10)>> \o Pad2(n % 100)

\* index.strftime('%Y-%m-%d')
Strftime(d) == Pad4(d[1]) \o <<"-">> \o Pad2(d[2]) \o <<"-">> \o Pad2(d[3])

\* float(v) raises on a value that is not a number
FloatRaises(c) == ~c.isnum
Float(c) == c.v

RowNeverRaises(row) == FALSE

RowRaises(row) ==
    \/ FloatRaises(row.Open)
    \/ FloatRaises(row.High)
    \/ FloatRaises(row.Low)
    \/ FloatRaises(row.Close)

CandlePoint(row) ==
    [x |-> Strftime(row.idx), y |-> <<Float(row.Open), Float(row.High), Float(row.Low), Float(row.Close)>>]

FrameNeverEmpty(frame) == FALSE

\* data.empty
FrameIsEmpty(frame) == frame = <<>>

\* the loop building candlestick_data
TransformRaises(frame) == \E k \in DOMAIN frame : RowRaises(frame[k])
Candlesticks(frame) == [k \in DOMAIN frame |-> CandlePoint(frame[k])]

\* d[key] = value
DictPut(d, key, value) ==
    [k \in DOMAIN d \cup {key} |-> IF k = key THEN value ELSE d[k]]

EmptyDict == [k \in {} |-> 0]

\* ------------------------------------------------------ the CSV files
\* a value of a loaded row: a str, a float (in tenths) or None
Str(s) == [t |-> "str", s |-> s, n |-> 0]
Flt(n) == [t |-> "float", s |-> <<>>, n |-> n]
NoneV == [t |-> "none", s |-> <<>>, n |-> 0]

ReturnFields == {"1 Year Returns", "2 Year Returns", "5 Year Returns", "10 Year Returns"}

\* filenames = {'india': 'india.csv', 'usa': 'usa.csv'}
Filenames == [w \in {"india", "usa"} |-> IF w = "india" THEN "india.csv" ELSE "usa.csv"]

MissingFile == [exists |-> FALSE, header |-> <<>>, rows |-> <<>>]
CsvFile(header, rows) == [exists |-> TRUE, header |-> header, rows |-> rows]

HeaderOnly == CsvFile(<<"Symbol", "1 Year Returns">>, <<>>)
ThreeRows ==
    CsvFile(<<"Symbol", "1 Year Returns">>,
            << <<<<"A">>, <<"2", ".", "0">>>>,
               <<<<"B">>, <<"-", "1", ".", "5">>>>,
               <<<<"A", "b">>, <<"2">>>> >>)
ShortRow ==
    CsvFile(<<"Symbol", "1 Year Returns", "Name">>,
            << <<<<"B">>, <<"2">>, <<"b", "e", "e">>>>,
               <<<<"A">>, <<"1">>>> >>)
BadNumber ==
    CsvFile(<<"Symbol", "1 Year Returns">>,
            << <<<<"B">>, <<"2">>>>,
               <<<<"A">>, <<"N", "/", "A">>>> >>)
TwoRows ==
    CsvFile(<<"Symbol", "2 Year Returns">>,
            << <<<<"M">>, <<"3">>>>,
               <<<<"K">>, <<"1">>>> >>)

IndiaFiles == {MissingFile, HeaderOnly, ThreeRows, ShortRow, BadNumber}
UsaFiles == {TwoRows}

\* ------------------------------------------------------------------ Init
\* what the Price History Source did for the last request
NotCalled == [called |-> FALSE, out |-> Failure]
Called(out) == [called |-> TRUE, out |-> out]

NoResp == [op |-> "none", args |-> <<>>, status |-> 0, error |-> "",
           body |-> <<>>, log |-> "", src |-> NotCalled]

\* the worker threads of the server, and a thread that serves no request
Threads == {1, 2}
Idle == [pc |-> "idle", args |-> <<>>, key |-> <<>>, name |-> "", checked |-> 0,
         seen |-> 0, issue |-> 0, ets |-> 0, status |-> 0, data |-> <<>>]

Init ==
    /\ now = 0
    /\ scache = EmptyDict
    /\ calls = 0
    /\ stored = EmptyDict
    /\ wcache = EmptyDict
    /\ files = [f \in {"india.csv", "usa.csv"} |->
                    IF f = "india.csv" THEN ThreeRows ELSE TwoRows]
    /\ reads = 0
    /\ nreq = 0
    /\ resp = NoResp
    /\ thr = [t \in Threads |-> Idle]

\* -------------------------------------------------------- /api/stock_data
StockRequests ==
    { <<Absent, Absent, Absent>>,
      <<<<>>, Absent, Absent>>,
      <<<<" ">>, Absent, Absent>>,
      <<<<"a">>, <<"B", "_", "d">>, Absent>>,
      <<<<"A">>, <<"B", "_", "d">>, Absent>>,
      <<<<"a", "_", "b">>, <<"d">>, Absent>> }

ErrEmptyTicker == "Stock ticker cannot be empty."
ErrNoData == "No data found for the ticker"
ErrInternal == "An internal server error occurred."

LogCache == "Serving from cache."
LogFetch == "Fetching fresh data"
LogNoData == "Warning: No data found"
LogError == "An error occurred while fetching data"

StockResp(t, p, i, status, error, body, log, src) ==
    [op |-> "stock_data", args |-> <<t, p, i>>, status |-> status,
     error |-> error, body |-> body, log |-> log, src |-> src]

\* the symbol, period and interval a request is about
Triple(t, p, i) ==
    <<Upper(ArgsGet(t, DefaultTicker)), ArgsGet(p, DefaultPeriod),
      ArgsGet(i, DefaultInterval)>>

get_stock_data(t, p, i, out, delay) ==
    LET ticker == Triple(t, p, i)[1]
        period == Triple(t, p, i)[2]
        interval == Triple(t, p, i)[3]
        cache_key == CacheKey(ticker, period, interval)
    IN  /\ nreq < MaxReq
        /\ nreq' = nreq + 1
        /\ UNCHANGED watchVars
        /\ UNCHANGED thr
        /\ IF TickerIsEmpty(ticker)
           THEN /\ resp' = StockResp(t, p, i, 400, ErrEmptyTicker, <<>>, "", NotCalled)
                /\ UNCHANGED stockVars
           ELSE IF IsFresh(scache, cache_key, now)
           THEN /\ resp' = StockResp(t, p, i, 200, "", scache[cache_key].data,
                                     LogCache, NotCalled)
                /\ UNCHANGED stockVars
           ELSE /\ now + delay <= MaxNow
                /\ calls' = calls + 1
                /\ now' = now + delay
                /\ IF out.raised
                   THEN /\ resp' = StockResp(t, p, i, 500, ErrInternal, <<>>,
                                             LogError, Called(out))
                        /\ UNCHANGED <<scache, stored>>
                   ELSE IF FrameIsEmpty(out.frame)
                   THEN /\ resp' = StockResp(t, p, i, 404, ErrNoData, <<>>,
                                             LogNoData, Called(out))
                        /\ UNCHANGED <<scache, stored>>
                   ELSE IF TransformRaises(out.frame)
                   THEN /\ resp' = StockResp(t, p, i, 500, ErrInternal, <<>>,
                                             LogError, Called(out))
                        /\ UNCHANGED <<scache, stored>>
                   ELSE LET entry == [data |-> Candlesticks(out.frame),
                                      timestamp |-> now + delay]
                        IN  /\ scache' = DictPut(scache, cache_key, entry)
                            /\ stored' = DictPut(stored, <<ticker, period, interval>>, entry)
                            /\ resp' = StockResp(t, p, i, 200, "", entry.data,
                                                 LogFetch, Called(out))

StockRequest ==
    \E r \in StockRequests, out \in SourceOutcomes, delay \in FetchDelays :
        get_stock_data(r[1], r[2], r[3], out, delay)

\* the clock advances between requests
Tick ==
    \E d \in TickSteps :
        /\ now + d <= MaxNow
        /\ now' = now + d
        /\ UNCHANGED <<scache, calls, stored, wcache, files, reads, nreq, resp, thr>>

StockNext == StockRequest \/ Tick
StockSpec == Init /\ [][StockNext]_vars

\* ------------------------------- /api/stock_data served by several threads
ConcRequests ==
    { <<<<>>, Absent, Absent>>,
      <<<<"a">>, <<"B", "_", "d">>, Absent>>,
      <<<<"A">>, <<"B", "_", "d">>, Absent>> }
ConcTickSteps == {900}

Finished(t, status, data) ==
    [thr[t] EXCEPT !.pc = "done", !.status = status, !.data = data]

StoreMerging(cache, key, entry) ==
    IF key \in DOMAIN cache
    THEN DictPut(cache, key, [data |-> cache[key].data \o entry.data,
                              timestamp |-> entry.timestamp])
    ELSE DictPut(cache, key, entry)

StoreUnlessPresent(cache, key, entry) ==
    IF key \in DOMAIN cache THEN cache ELSE DictPut(cache, key, entry)

\* _stock_data_cache[cache_key] = {'data': ..., 'timestamp': ...}
StoreEntry(cache, key, entry) == DictPut(cache, key, entry)

\* the cache after a miss, had the handler dropped the stale entry
Evicted(cache, key) == [k \in DOMAIN cache \ {key} |-> cache[k]]

BeginStockEvicting(t, r) ==
    LET ticker == Triple(r[1], r[2], r[3])[1]
        cache_key == CacheKey(ticker, Triple(r[1], r[2], r[3])[2], Triple(r[1], r[2], r[3])[3])
        started == [Idle EXCEPT !.args = r, !.key = cache_key, !.checked = now]
    IN  /\ thr[t].pc \in {"idle", "done"}
        /\ nreq < MaxReq
        /\ nreq' = nreq + 1
        /\ UNCHANGED <<now, stored, wcache, files, reads, resp>>
        /\ IF TickerIsEmpty(ticker)
           THEN /\ thr' = [thr EXCEPT ![t] = [started EXCEPT !.pc = "done", !.status = 400]]
                /\ UNCHANGED <<calls, scache>>
           ELSE IF IsFresh(scache, cache_key, now)
           THEN /\ thr' = [thr EXCEPT ![t] = [started EXCEPT !.pc = "hit",
                                                !.seen = scache[cache_key].timestamp]]
                /\ UNCHANGED <<calls, scache>>
           ELSE /\ calls' = calls + 1
                /\ scache' = Evicted(scache, cache_key)
                /\ thr' = [thr EXCEPT ![t] = [started EXCEPT !.pc = "fetching",
                                                !.issue = calls + 1]]

\* lines 109-127: validate, build the key, test freshness, and on a miss
\* call yf.download
BeginStock(t, r) ==
    LET ticker == Triple(r[1], r[2], r[3])[1]
        cache_key == CacheKey(ticker, Triple(r[1], r[2], r[3])[2], Triple(r[1], r[2], r[3])[3])
        started == [Idle EXCEPT !.args = r, !.key = cache_key, !.checked = now]
    IN  /\ thr[t].pc \in {"idle", "done"}
        /\ nreq < MaxReq
        /\ nreq' = nreq + 1
        /\ UNCHANGED <<now, scache, stored, wcache, files, reads, resp>>
        /\ IF TickerIsEmpty(ticker)
           THEN /\ thr' = [thr EXCEPT ![t] = [started EXCEPT !.pc = "done", !.status = 400]]
                /\ UNCHANGED calls
           ELSE IF IsFresh(scache, cache_key, now)
           THEN /\ thr' = [thr EXCEPT ![t] = [started EXCEPT !.pc = "hit",
                                                !.seen = scache[cache_key].timestamp]]
                /\ UNCHANGED calls
           ELSE /\ calls' = calls + 1
                /\ thr' = [thr EXCEPT ![t] = [started EXCEPT !.pc = "fetching",
                                                !.issue = calls + 1]]

\* line 123: a second lookup; a missing key raises KeyError, answered 500
ServeHit(t) ==
    /\ thr[t].pc = "hit"
    /\ thr' = [thr EXCEPT ![t] =
                 IF thr[t].key \in DOMAIN scache
                 THEN [Finished(t, 200, scache[thr[t].key].data)
                          EXCEPT !.ets = scache[thr[t].key].timestamp]
                 ELSE Finished(t, 500, <<>>)]
    /\ UNCHANGED <<now, scache, calls, stored, wcache, files, reads, nreq, resp>>

\* lines 127-151: yf.download returns or raises; the rows are converted and
\* the entry is stored
FinishFetch(t, out) ==
    /\ thr[t].pc = "fetching"
    /\ UNCHANGED <<now, calls, wcache, files, reads, nreq, resp>>
    /\ IF out.raised
       THEN /\ thr' = [thr EXCEPT ![t] = Finished(t, 500, <<>>)]
            /\ UNCHANGED <<scache, stored>>
       ELSE IF FrameIsEmpty(out.frame)
       THEN /\ thr' = [thr EXCEPT ![t] = Finished(t, 404, <<>>)]
            /\ UNCHANGED <<scache, stored>>
       ELSE IF TransformRaises(out.frame)
       THEN /\ thr' = [thr EXCEPT ![t] = Finished(t, 500, <<>>)]
            /\ UNCHANGED <<scache, stored>>
       ELSE LET entry == [data |-> Candlesticks(out.frame), timestamp |-> now]
            IN  /\ scache' = StoreEntry(scache, thr[t].key, entry)
                /\ stored' = DictPut(stored, Triple(thr[t].args[1], thr[t].args[2],
                                                  thr[t].args[3]), entry)
                /\ thr' = [thr EXCEPT ![t] =
                             [Finished(t, 200, entry.data) EXCEPT !.ets = now]]

ConcTick ==
    \E d \in ConcTickSteps :
        /\ now + d <= MaxNow
        /\ now' = now + d
        /\ UNCHANGED <<scache, calls, stored, wcache, files, reads, nreq, resp, thr>>

ConcStockNext ==
    \/ \E t \in Threads, r \in ConcRequests : BeginStock(t, r)
    \/ \E t \in Threads : ServeHit(t)
    \/ \E t \in Threads, out \in SourceOutcomes : FinishFetch(t, out)
    \/ ConcTick
ConcStockSpec == Init /\ [][ConcStockNext]_vars

\* ------------------------------------------------ claims on /api/stock_data
\* a step that serves one stock-data request
StockStep == nreq' = nreq + 1 /\ resp'.op = "stock_data"
RespTriple(r) == Triple(r.args[1], r.args[2], r.args[3])
RespKey(r) == CacheKey(RespTriple(r)[1], RespTriple(r)[2], RespTriple(r)[3])
IsStock(r) == r.op = "stock_data"

\* C1: once a request for a (symbol, period, interval) has stored an entry,
\* every later request for that triple made while now - created_at < 1800
\* answers 200 with exactly the stored series and leaves the source call
\* counter unchanged.
C1_FreshHit ==
    [][\A T \in DOMAIN stored :
          (StockStep /\ RespTriple(resp') = T /\ now - stored[T].timestamp < 1800)
              => /\ resp'.status = 200
                 /\ resp'.body = stored[T].data
                 /\ calls' = calls
                 /\ ~resp'.src.called]_vars

\* a hit served strictly after the entry was stored
C1_Witness ==
    /\ IsStock(resp) /\ resp.log = LogCache /\ resp.status = 200
    /\ RespTriple(resp) \in DOMAIN stored
    /\ resp.body = stored[RespTriple(resp)].data
    /\ Len(resp.body) = 2
    /\ now - stored[RespTriple(resp)].timestamp = 1799
    /\ calls = 1 /\ nreq = 2

\* C2: an entry counts as present iff now - created_at < 1800 (strictly): a
\* request whose key has an entry of age 1800 or more invokes the source
\* again while the stale entry is still in the cache, and one whose entry is
\* younger is served from the cache.
C2_StrictTTL ==
    [][\A k \in DOMAIN scache :
          (StockStep /\ RespKey(resp') = k /\ resp'.status # 400)
              => IF now - scache[k].timestamp < 1800
                 THEN calls' = calls /\ ~resp'.src.called /\ resp'.log = LogCache
                 ELSE /\ calls' = calls + 1
                      /\ resp'.src.called
                      /\ k \in DOMAIN scache']_vars

\* the source was invoked (and raised) for a key whose entry was exactly
\* 1800 seconds old
C2_Witness ==
    /\ IsStock(resp) /\ resp.src.called /\ resp.src.out.raised
    /\ RespKey(resp) \in DOMAIN scache
    /\ now - scache[RespKey(resp)].timestamp = 1800
    /\ calls = 2

SourceEmpty(r) == r.src.called /\ ~r.src.out.raised /\ r.src.out.frame = <<>>

\* C3: when the source returns an empty series the request answers 404 and
\* the cache is left exactly as it was; no entry ever holds an empty series;
\* a request identical to one that just received an empty series invokes
\* the source again.
C3_EmptyNotCached ==
    /\ [](\A k \in DOMAIN scache : scache[k].data # <<>>)
    /\ [][(StockStep /\ SourceEmpty(resp'))
              => resp'.status = 404 /\ resp'.body = <<>> /\ scache' = scache]_vars
    /\ [][(StockStep /\ IsStock(resp) /\ SourceEmpty(resp) /\ resp'.args = resp.args)
              => resp'.src.called /\ calls' = calls + 1]_vars

\* an empty result arrived for a key that still holds its stale entry
C3_Witness ==
    /\ IsStock(resp) /\ SourceEmpty(resp) /\ resp.status = 404
    /\ RespKey(resp) \in DOMAIN scache
    /\ now - scache[RespKey(resp)].timestamp >= 1800
    /\ scache[RespKey(resp)].data # <<>>

CellRejected(c) == c.isnum = FALSE
SourceFailed(r) ==
    /\ r.src.called
    /\ \/ r.src.out.raised
       \/ \E k \in DOMAIN r.src.out.frame :
             \/ CellRejected(r.src.out.frame[k].Open)
             \/ CellRejected(r.src.out.frame[k].High)
             \/ CellRejected(r.src.out.frame[k].Low)
             \/ CellRejected(r.src.out.frame[k].Close)

\* C4: when the source call raises, or a fetched row cannot be turned into
\* a CandlePoint, the request answers 500, the cache is unchanged (a stale
\* entry at the key keeps data and timestamp), and the next identical
\* request invokes the source again.
C4_FailureNotCached ==
    /\ [][(StockStep /\ SourceFailed(resp'))
              => resp'.status = 500 /\ resp'.body = <<>> /\ scache' = scache]_vars
    /\ [][(StockStep /\ IsStock(resp) /\ SourceFailed(resp) /\ resp'.args = resp.args)
              => resp'.src.called /\ calls' = calls + 1]_vars

\* a row failed to convert for a key that still holds its stale entry
C4_Witness ==
    /\ IsStock(resp) /\ SourceFailed(resp) /\ ~resp.src.out.raised
    /\ resp.status = 500
    /\ RespKey(resp) \in DOMAIN scache
    /\ now - scache[RespKey(resp)].timestamp > 1800

\* C5: a request with ticker "" answers 400 and neither uses the cache nor
\* invokes the source, whatever the cache holds.
C5_EmptyTicker ==
    [][(StockStep /\ resp'.args[1] = <<>>)
          => /\ resp'.status = 400
             /\ resp'.error = ErrEmptyTicker
             /\ resp'.log # LogCache
             /\ ~resp'.src.called
             /\ calls' = calls
             /\ scache' = scache]_vars

\* ticker "" rejected while the cache holds a fresh entry
C5_Witness ==
    /\ IsStock(resp) /\ resp.args[1] = <<>> /\ resp.status = 400
    /\ \E k \in DOMAIN scache : now - scache[k].timestamp < 1800

\* str.strip() on a symbol
RECURSIVE LStrip(_)
LStrip(s) == IF s # <<>> /\ Head(s) = " " THEN LStrip(Tail(s)) ELSE s
RECURSIVE RStrip(_)
RStrip(s) ==
    IF s # <<>> /\ s[Len(s)] = " " THEN RStrip(SubSeq(s, 1, Len(s) - 1)) ELSE s
Strip(s) == RStrip(LStrip(s))

\* C6: a request whose symbol is empty after trimming whitespace answers
\* 400 "ticker cannot be empty" before any cache lookup or source call.
C6_BlankTicker ==
    [][(StockStep /\ Strip(resp'.args[1]) = <<>>)
          => /\ resp'.status = 400
             /\ resp'.error = ErrEmptyTicker
             /\ ~resp'.src.called
             /\ calls' = calls
             /\ scache' = scache]_vars

\* ---------------------------------------------------- load_watchlist_data
Min(a, b) == IF a < b THEN a ELSE b
Max(a, b) == IF a > b THEN a ELSE b

IsDigit(c) == c \in {"0", "1", "2", "3", "4", "5", "6", "7", "8", "9"}
DigitVal(c) ==
    CASE c = "0" -> 0 [] c = "1" -> 1 [] c = "2" -> 2 [] c = "3" -> 3
      [] c = "4" -> 4 [] c = "5" -> 5 [] c = "6" -> 6 [] c = "7" -> 7
      [] c = "8" -> 8 [] c = "9" -> 9

AllDigits(s) == s # <<>> /\ \A k \in DOMAIN s : IsDigit(s[k])

RECURSIVE DigitsVal(_)
DigitsVal(s) ==
    IF s = <<>> THEN 0
    ELSE 10 * DigitsVal(SubSeq(s, 1, Len(s) - 1)) + DigitVal(s[Len(s)])

HasSign(s) == s # <<>> /\ Head(s) \in {"-", "+"}
Unsigned(s) == IF HasSign(s) THEN Tail(s) ELSE s
Signed(s, n) == IF s # <<>> /\ Head(s) = "-" THEN 0 - n ELSE n

\* position of the decimal point, 0 when there is none
DotAt(s) ==
    IF \E k \in DOMAIN s : s[k] = "."
    THEN CHOOSE k \in DOMAIN s : s[k] = "." /\ \A j \in 1..(k - 1) : s[j] # "."
    ELSE 0

\* float(text): sign, digits and at most one fraction digit; the value in tenths
FloatTextRaises(s) ==
    LET u == Unsigned(s)
        d == DotAt(u)
    IN  IF d = 0 THEN ~AllDigits(u)
        ELSE \/ ~AllDigits(SubSeq(u, 1, d - 1))
             \/ Len(u) # d + 1
             \/ ~IsDigit(u[Len(u)])

FloatText(s) ==
    LET u == Unsigned(s)
        d == DotAt(u)
    IN  IF d = 0 THEN Signed(s, 10 * DigitsVal(u))
        ELSE Signed(s, 10 * DigitsVal(SubSeq(u, 1, d - 1)) + DigitVal(u[Len(u)]))

Index(seq, x) == CHOOSE k \in DOMAIN seq : seq[k] = x
InHeader(header, f) == \E k \in DOMAIN header : header[k] = f

\* csv.DictReader: a row shorter than the header gets None for the rest
DictRow(header, cells) ==
    [f \in {header[k] : k \in DOMAIN header} |->
        IF Index(header, f) <= Len(cells) THEN Str(cells[Index(header, f)]) ELSE NoneV]

\* float(row.get(field, 0)) raises on None and on text that is not a number
ReturnRaises(header, cells, f) ==
    /\ InHeader(header, f)
    /\ \/ DictRow(header, cells)[f] = NoneV
       \/ FloatTextRaises(DictRow(header, cells)[f].s)

ReturnValue(header, cells, f) ==
    IF InHeader(header, f) THEN Flt(FloatText(DictRow(header, cells)[f].s)) ELSE Flt(0)

\* the loop body at lines 49-54
ConvertRaises(header, cells) == \E f \in ReturnFields : ReturnRaises(header, cells, f)
ConvertRow(header, cells) ==
    [f \in {header[k] : k \in DOMAIN header} \cup ReturnFields |->
        IF f \in ReturnFields THEN ReturnValue(header, cells, f)
        ELSE DictRow(header, cells)[f]]

ParseRaises(file) == \E k \in DOMAIN file.rows : ConvertRaises(file.header, file.rows[k])
ParseFile(file) == [k \in DOMAIN file.rows |-> ConvertRow(file.header, file.rows[k])]

NoTable == [ok |-> FALSE, table |-> <<>>]
Table(t) == [ok |-> TRUE, table |-> t]

\* load_watchlist_data: the value returned, the cache and the read count after
FilenameOrIndia(name) == IF name \in DOMAIN Filenames THEN Filenames[name] ELSE "india.csv"

\* filenames.get(watchlist_name): None for a name that is not a key
NoFilename == ""
FilenameFor(name) == IF name \in DOMAIN Filenames THEN Filenames[name] ELSE NoFilename

NeverInCache(name, cache) == FALSE

\* watchlist_name in _watchlist_cache
InCache(name, cache) == name \in DOMAIN cache

\* load_watchlist_data: the value returned, the cache and the read count after
load_watchlist_data(name, cache, disk, nreads) ==
    IF InCache(name, cache)
    THEN [result |-> Table(cache[name]), cache |-> cache, reads |-> nreads]
    ELSE IF FilenameFor(name) = NoFilename
    THEN [result |-> NoTable, cache |-> cache, reads |-> nreads]
    ELSE IF ~disk[FilenameFor(name)].exists
    THEN [result |-> NoTable, cache |-> cache, reads |-> nreads]
    ELSE IF ParseRaises(disk[FilenameFor(name)])
    THEN [result |-> NoTable, cache |-> cache, reads |-> nreads + 1]
    ELSE [result |-> Table(ParseFile(disk[FilenameFor(name)])),
          cache |-> DictPut(cache, name, ParseFile(disk[FilenameFor(name)])),
          reads |-> nreads + 1]

\* ---------------------------------------------------------- /api/watchlist
\* request.args.get(name) of a parameter that was not sent
None_ == "<None>"
DefaultWatchlist == "india"
DefaultStartRank == 1
DefaultEndRank == 50
DefaultSort == "asc"

\* request.args.get(name, default) of a parameter that is a name
ArgsGetName(v, default) == IF v = None_ THEN default ELSE v

\* int(text) raises unless text is an optional sign followed by digits
IntRaises(s) == ~AllDigits(Unsigned(s))
IntText(s) == Signed(s, DigitsVal(Unsigned(s)))

\* int(request.args.get(name, default))
RankRaises(arg) == arg # Absent /\ IntRaises(arg)
Rank(arg, default) == IF arg = Absent THEN default ELSE IntText(arg)

RankRangeAllowsZero(start_rank, end_rank) == start_rank < 0 \/ end_rank < start_rank

\* start_rank < 1 or end_rank < start_rank
RankRangeInvalid(start_rank, end_rank) == start_rank < 1 \/ end_rank < start_rank

\* a slice bound of a list of length n
SliceBound(k, n) == IF k < 0 THEN Max(k + n, 0) ELSE Min(k, n)

SliceInclusiveEnd(list, lo, hi) ==
    LET a == SliceBound(lo, Len(list))
        b == SliceBound(hi + 1, Len(list))
    IN  IF a < b THEN SubSeq(list, a + 1, b) ELSE <<>>

\* list[lo:hi]
Slice(list, lo, hi) ==
    LET a == SliceBound(lo, Len(list))
        b == SliceBound(hi, Len(list))
    IN  IF a < b THEN SubSeq(list, a + 1, b) ELSE <<>>

\* ord(c)
CharCode(c) ==
    CASE c = "A" -> 65 [] c = "B" -> 66 [] c = "K" -> 75 [] c = "M" -> 77
      [] c = "b" -> 98 [] c = "e" -> 101 [] OTHER -> 0

\* str < str
RECURSIVE StrLess(_, _)
StrLess(a, b) ==
    IF b = <<>> THEN FALSE
    ELSE IF a = <<>> THEN TRUE
    ELSE IF CharCode(Head(a)) # CharCode(Head(b)) THEN CharCode(Head(a)) < CharCode(Head(b))
    ELSE StrLess(Tail(a), Tail(b))

\* x < y on sort keys raises TypeError unless both are str or both are float
LessRaises(v, w) == ~(v.t = w.t /\ v.t \in {"str", "float"})
Less(v, w) == IF v.t = "float" THEN v.n < w.n ELSE StrLess(v.s, w.s)

\* list.sort compares every element of a list of two or more
SortRaises(rows, sort_by) ==
    /\ Len(rows) >= 2
    /\ \E j, k \in DOMAIN rows : j # k /\ LessRaises(rows[j][sort_by], rows[k][sort_by])

BeforeAscending(x, y, sort_by, reverse) == Less(x[sort_by], y[sort_by])

\* x goes in front of y
Before(x, y, sort_by, reverse) ==
    IF reverse THEN Less(y[sort_by], x[sort_by]) ELSE Less(x[sort_by], y[sort_by])

InsertUnstable(sorted, x, sort_by, reverse) ==
    LET ahead == {k \in DOMAIN sorted : ~Before(sorted[k], x, sort_by, reverse)}
        at == IF ahead = {} THEN Len(sorted) + 1
              ELSE CHOOSE k \in ahead : \A j \in ahead : k <= j
    IN  SubSeq(sorted, 1, at - 1) \o <<x>> \o SubSeq(sorted, at, Len(sorted))

InsertStable(sorted, x, sort_by, reverse) ==
    LET ahead == {k \in DOMAIN sorted : Before(x, sorted[k], sort_by, reverse)}
        at == IF ahead = {} THEN Len(sorted) + 1
              ELSE CHOOSE k \in ahead : \A j \in ahead : k <= j
    IN  SubSeq(sorted, 1, at - 1) \o <<x>> \o SubSeq(sorted, at, Len(sorted))

\* list.sort(key=lambda x: x[sort_by], reverse=reverse), a stable sort
RECURSIVE Sorted(_, _, _)
Sorted(rows, sort_by, reverse) ==
    IF rows = <<>> THEN <<>>
    ELSE InsertStable(Sorted(SubSeq(rows, 1, Len(rows) - 1), sort_by, reverse),
                      rows[Len(rows)], sort_by, reverse)

\* if sort_by:
Truthy(sort_by) == sort_by # None_ /\ sort_by # ""

\* not filtered_data or sort_by not in filtered_data[0]
SortKeyInvalid(filtered_data, sort_by) ==
    filtered_data = <<>> \/ sort_by \notin DOMAIN filtered_data[1]

SortThenSlice(watchlist_data, start_rank, end_rank, sort_by, reverse) ==
    IF Truthy(sort_by) /\ watchlist_data # <<>> /\ sort_by \in DOMAIN watchlist_data[1]
          /\ ~SortRaises(watchlist_data, sort_by)
    THEN Slice(Sorted(watchlist_data, sort_by, reverse), start_rank - 1, end_rank)
    ELSE Slice(watchlist_data, start_rank - 1, end_rank)

\* lines 81-97: copy, slice, then sort the page
Page(watchlist_data, start_rank, end_rank, sort_by, reverse) ==
    LET filtered_data == Slice(watchlist_data, start_rank - 1, end_rank)
    IN  IF Truthy(sort_by) /\ ~SortKeyInvalid(filtered_data, sort_by)
              /\ ~SortRaises(filtered_data, sort_by)
        THEN Sorted(filtered_data, sort_by, reverse)
        ELSE filtered_data

ErrNotFound == "Watchlist not found or could not be processed."
ErrRankRange == "Invalid rank range."
ErrSortKey == "Invalid sort key"
ErrServer == "Internal server error."

WatchResp(a, status, error, body) ==
    [op |-> "watchlist", args |-> a, status |-> status, error |-> error,
     body |-> body, log |-> "", src |-> NotCalled]

WatchArgs(w, sr, er, sb, so) ==
    [watchlist |-> w, start_rank |-> sr, end_rank |-> er, sortBy |-> sb, sort |-> so]

\* lines 68-99: the response to a query, given what the loader returned
WatchResponse(a, result) ==
    LET watchlist_data == result.table
        sort_order == ArgsGetName(a.sort, DefaultSort)
        sort_by == a.sortBy
        start_rank == Rank(a.start_rank, DefaultStartRank)
        end_rank == Rank(a.end_rank, DefaultEndRank)
        filtered_data == Slice(watchlist_data, start_rank - 1, end_rank)
    IN  IF ~result.ok
        THEN WatchResp(a, 404, ErrNotFound, <<>>)
        ELSE IF RankRaises(a.start_rank) \/ RankRaises(a.end_rank)
        THEN WatchResp(a, 500, ErrServer, <<>>)
        ELSE IF RankRangeInvalid(start_rank, end_rank)
        THEN WatchResp(a, 400, ErrRankRange, <<>>)
        ELSE IF Truthy(sort_by) /\ SortKeyInvalid(filtered_data, sort_by)
        THEN WatchResp(a, 400, ErrSortKey, <<>>)
        ELSE IF Truthy(sort_by) /\ SortRaises(filtered_data, sort_by)
        THEN WatchResp(a, 500, ErrServer, <<>>)
        ELSE WatchResp(a, 200, "",
                       Page(watchlist_data, start_rank, end_rank,
                            sort_by, sort_order = "desc"))

\* the cache after a query that sorts the cached list itself, not a copy
CacheSortedInPlace(a, cache, name) ==
    IF /\ name \in DOMAIN cache
       /\ WatchResponse(a, Table(cache[name])).status = 200
       /\ Truthy(a.sortBy)
       /\ cache[name] # <<>>
       /\ a.sortBy \in DOMAIN cache[name][1]
       /\ ~SortRaises(cache[name], a.sortBy)
    THEN DictPut(cache, name,
                 Sorted(cache[name], a.sortBy, ArgsGetName(a.sort, DefaultSort) = "desc"))
    ELSE cache

get_watchlist_sorting_cache(a) ==
    LET watchlist_name == ArgsGetName(a.watchlist, DefaultWatchlist)
        loaded == load_watchlist_data(watchlist_name, wcache, files, reads)
    IN  /\ loaded.reads <= MaxReads
        /\ wcache' = CacheSortedInPlace(a, loaded.cache, watchlist_name)
        /\ reads' = loaded.reads
        /\ UNCHANGED <<files, now, scache, calls, stored, nreq, thr>>
        /\ resp' = WatchResponse(a, loaded.result)

get_watchlist(a) ==
    LET watchlist_name == ArgsGetName(a.watchlist, DefaultWatchlist)
        loaded == load_watchlist_data(watchlist_name, wcache, files, reads)
    IN  /\ loaded.reads <= MaxReads
        /\ wcache' = loaded.cache
        /\ reads' = loaded.reads
        /\ UNCHANGED <<files, now, scache, calls, stored, nreq, thr>>
        /\ resp' = WatchResponse(a, loaded.result)

StartRankArgs == {Absent, <<"0">>, <<"2">>, <<"4">>, <<"x">>}
EndRankArgs == {Absent, <<"1">>, <<"3">>}
SortByArgs == {None_, "", "Symbol", "1 Year Returns", "Name"}
SortArgs == {None_, "desc"}

WatchRequests ==
    {WatchArgs(None_, sr, er, sb, so) :
        sr \in StartRankArgs, er \in EndRankArgs, sb \in SortByArgs, so \in SortArgs}
    \cup {WatchArgs(w, Absent, <<"1">>, sb, None_) :
            w \in {"usa", "uk"}, sb \in {None_, "2 Year Returns"}}

WatchlistRequest == \E a \in WatchRequests : get_watchlist(a)

\* lines 158-161: the script loads both watchlists before it serves
StartupLoad ==
    \E name \in {"india", "usa"} :
        LET loaded == load_watchlist_data(name, wcache, files, reads)
        IN  /\ resp = NoResp
            /\ loaded.reads <= MaxReads
            /\ wcache' = loaded.cache
            /\ reads' = loaded.reads
            /\ UNCHANGED <<files, now, scache, calls, stored, nreq, resp, thr>>

\* the CSV files are replaced, removed or restored outside the program
ChangeFile ==
    \E india \in IndiaFiles, usa \in UsaFiles :
        /\ files' = [f \in {"india.csv", "usa.csv"} |->
                        IF f = "india.csv" THEN india ELSE usa]
        /\ UNCHANGED <<wcache, reads, now, scache, calls, stored, nreq, resp, thr>>

WatchNext == WatchlistRequest \/ StartupLoad \/ ChangeFile
WatchSpec == Init /\ [][WatchNext]_vars

Next == StockNext \/ WatchNext
Spec == Init /\ [][Next]_vars

\* -------------------------------- /api/watchlist served by several threads
ConcWatchRequests ==
    { WatchArgs(None_, Absent, Absent, None_, None_),
      WatchArgs("usa", Absent, <<"1">>, "Symbol", "desc"),
      WatchArgs("uk", Absent, Absent, None_, None_) }

Answered(t, a, result) ==
    [thr[t] EXCEPT !.pc = "done",
                   !.status = WatchResponse(a, result).status,
                   !.data = WatchResponse(a, result).body]

\* lines 65-37: the name is looked up in the cache, then in filenames
BeginWatch(t, a) ==
    LET watchlist_name == ArgsGetName(a.watchlist, DefaultWatchlist)
        started == [Idle EXCEPT !.args = a, !.name = watchlist_name]
    IN  /\ thr[t].pc \in {"idle", "done"}
        /\ UNCHANGED <<wcache, files, reads, now, scache, calls, stored, nreq, resp>>
        /\ thr' = [thr EXCEPT ![t] =
                     IF InCache(watchlist_name, wcache)
                     THEN [Answered(t, a, Table(wcache[watchlist_name]))
                              EXCEPT !.args = a, !.name = watchlist_name,
                                     !.issue = 0, !.key = <<>>]
                     ELSE IF FilenameFor(watchlist_name) = NoFilename
                     THEN [Answered(t, a, NoTable)
                              EXCEPT !.args = a, !.name = watchlist_name,
                                     !.issue = 0, !.key = <<>>]
                     ELSE [started EXCEPT !.pc = "reading"]]

\* lines 39-54: the file is opened and its rows are converted
ReadFile(t) ==
    LET file == files[FilenameFor(thr[t].name)]
    IN  /\ thr[t].pc = "reading"
        /\ UNCHANGED <<wcache, files, now, scache, calls, stored, nreq, resp>>
        /\ IF ~file.exists
           THEN /\ thr' = [thr EXCEPT ![t] = Answered(t, thr[t].args, NoTable)]
                /\ UNCHANGED reads
           ELSE /\ reads < MaxReads
                /\ reads' = reads + 1
                /\ thr' = [thr EXCEPT ![t] =
                             IF ParseRaises(file)
                             THEN Answered(t, thr[t].args, NoTable)
                             ELSE [thr[t] EXCEPT !.pc = "storing",
                                                 !.issue = reads + 1,
                                                 !.data = ParseFile(file)]]

\* lines 55-56 and the rest of get_watchlist on the table just read
StoreTable(t) ==
    /\ thr[t].pc = "storing"
    /\ wcache' = DictPut(wcache, thr[t].name, thr[t].data)
    /\ thr' = [thr EXCEPT ![t] = Answered(t, thr[t].args, Table(thr[t].data))]
    /\ UNCHANGED <<files, reads, now, scache, calls, stored, nreq, resp>>

ConcWatchNext ==
    \/ \E t \in Threads, a \in ConcWatchRequests : BeginWatch(t, a)
    \/ \E t \in Threads : ReadFile(t)
    \/ \E t \in Threads : StoreTable(t)
    \/ ChangeFile
ConcWatchSpec == Init /\ [][ConcWatchNext]_vars

\* ------------------------------------------------- claims on /api/watchlist
IsWatch(r) == r.op = "watchlist"
\* the table the last query ran on, once it is loaded
RespName(r) == ArgsGetName(r.args.watchlist, DefaultWatchlist)
RespLoaded(r) == RespName(r) \in DOMAIN wcache
RespTable(r) == wcache[RespName(r)]
RespRanksParse(r) == ~RankRaises(r.args.start_rank) /\ ~RankRaises(r.args.end_rank)
RespStart(r) == Rank(r.args.start_rank, 1)
RespEnd(r) == Rank(r.args.end_rank, 50)
RespRangeValid(r) == RespStart(r) >= 1 /\ RespEnd(r) >= RespStart(r)

\* C7: on a loaded table, a query without sortBy whose ranks satisfy
\* startRank >= 1 and endRank >= startRank succeeds and returns
\* max(0, min(endRank, tableLength) - startRank + 1) rows.
C7_PageLength ==
    (/\ IsWatch(resp) /\ RespLoaded(resp) /\ RespRanksParse(resp)
     /\ RespRangeValid(resp) /\ resp.args.sortBy = None_)
        => /\ resp.status = 200
           /\ Len(resp.body) =
                Max(0, Min(RespEnd(resp), Len(RespTable(resp))) - RespStart(resp) + 1)

\* an endRank beyond the table length was clipped to a shorter page
C7_Witness ==
    /\ IsWatch(resp) /\ RespLoaded(resp) /\ resp.args.sortBy = None_
    /\ resp.status = 200
    /\ RespStart(resp) = 2 /\ RespEnd(resp) = 50
    /\ Len(RespTable(resp)) = 3
    /\ Len(resp.body) = 2

\* C8: on a loaded table, a query with startRank < 1 or endRank < startRank
\* answers 400 "invalid rank range" with no rows, whatever sortBy and sort.
C8_InvalidRange ==
    (/\ IsWatch(resp) /\ RespLoaded(resp) /\ RespRanksParse(resp)
     /\ (RespStart(resp) < 1 \/ RespEnd(resp) < RespStart(resp)))
        => /\ resp.status = 400
           /\ resp.error = ErrRankRange
           /\ resp.body = <<>>

\* startRank 0 rejected on a non-empty table although a valid sortBy was sent
C8_Witness ==
    /\ IsWatch(resp) /\ RespLoaded(resp) /\ RespRanksParse(resp)
    /\ RespStart(resp) = 0
    /\ Len(RespTable(resp)) = 3
    /\ resp.args.sortBy = "Symbol" /\ resp.args.sort = "desc"
    /\ resp.status = 400

\* C9: with sortBy present, an empty selection (a valid range that starts
\* beyond the table, or an empty table) yields an empty result and not an
\* error; a non-empty selection whose first row lacks the sortBy field
\* yields 400 "invalid sort key".
C9_EmptySelectionSorted ==
    (/\ IsWatch(resp) /\ RespLoaded(resp) /\ RespRanksParse(resp)
     /\ RespRangeValid(resp) /\ Truthy(resp.args.sortBy))
        => IF RespStart(resp) > Len(RespTable(resp))
           THEN resp.status = 200 /\ resp.body = <<>>
           ELSE resp.args.sortBy \notin DOMAIN RespTable(resp)[RespStart(resp)]
                    => resp.status = 400 /\ resp.error = ErrSortKey

\* the same rows, each as often
SameRows(a, b) ==
    /\ Len(a) = Len(b)
    /\ \A k \in DOMAIN a :
          Cardinality({j \in DOMAIN a : a[j] = a[k]})
              = Cardinality({j \in DOMAIN b : b[j] = a[k]})

\* C10: the rows of a successful query are the rows at positions
\* startRank..min(endRank, tableLength) of the table: in table order when
\* sortBy is absent, a reordering of exactly those rows when it is present.
C10_PageRows ==
    (IsWatch(resp) /\ resp.status = 200)
        => /\ RespLoaded(resp)
           /\ LET page == SubSeq(RespTable(resp), RespStart(resp),
                                 Min(RespEnd(resp), Len(RespTable(resp))))
              IN  IF Truthy(resp.args.sortBy)
                  THEN SameRows(resp.body, page)
                  ELSE resp.body = page

\* a sorted page was reordered, and a row left out of the page would have
\* sorted ahead of the rows in it
C10_Witness ==
    /\ IsWatch(resp) /\ resp.status = 200 /\ RespLoaded(resp)
    /\ resp.args.sortBy = "Symbol" /\ resp.args.sort = None_
    /\ RespStart(resp) = 2 /\ Len(RespTable(resp)) = 3
    /\ resp.body = <<RespTable(resp)[3], RespTable(resp)[2]>>
    /\ Less(RespTable(resp)[1]["Symbol"], resp.body[1]["Symbol"])

\* position of a row in its table (the rows of a table are distinct)
TableIndex(table, row) == CHOOSE k \in DOMAIN table : table[k] = row

\* C11: sorting is stable for both sort orders: two rows of the page with
\* equal sortBy value keep their relative table order; without sort=desc,
\* rows with different values come in ascending order of the value.
C11_StableSort ==
    (IsWatch(resp) /\ resp.status = 200 /\ Truthy(resp.args.sortBy))
        => \A j, k \in DOMAIN resp.body :
              j < k =>
                LET vj == resp.body[j][resp.args.sortBy]
                    vk == resp.body[k][resp.args.sortBy]
                IN  /\ vj = vk => TableIndex(RespTable(resp), resp.body[j])
                                    < TableIndex(RespTable(resp), resp.body[k])
                    /\ (vj # vk /\ resp.args.sort # "desc") => Less(vj, vk)

\* a descending sort of three rows kept the two rows of equal value in
\* table order
C11_Witness ==
    /\ IsWatch(resp) /\ resp.status = 200 /\ RespLoaded(resp)
    /\ resp.args.sortBy = "1 Year Returns" /\ resp.args.sort = "desc"
    /\ Len(RespTable(resp)) = 3
    /\ resp.body = <<RespTable(resp)[1], RespTable(resp)[3], RespTable(resp)[2]>>
    /\ resp.body[1]["1 Year Returns"] = resp.body[2]["1 Year Returns"]

Reverse(seq) == [k \in DOMAIN seq |-> seq[Len(seq) + 1 - k]]
NoDuplicates(rows, field) ==
    \A j, k \in DOMAIN rows : j # k => rows[j][field] # rows[k][field]

\* C12: for the same table, rank range and sortBy, when no two rows of the
\* page have equal sortBy value, the sort=desc result is the exact reverse
\* of the sort=asc result.
C12_DescReversesAsc ==
    [][(/\ IsWatch(resp) /\ resp.status = 200
        /\ IsWatch(resp') /\ resp'.status = 200
        /\ resp'.args.watchlist = resp.args.watchlist
        /\ resp'.args.start_rank = resp.args.start_rank
        /\ resp'.args.end_rank = resp.args.end_rank
        /\ resp'.args.sortBy = resp.args.sortBy
        /\ Truthy(resp.args.sortBy)
        /\ resp.args.sort # "desc" /\ resp'.args.sort = "desc"
        /\ NoDuplicates(resp.body, resp.args.sortBy))
           => resp'.body = Reverse(resp.body)]_vars

\* a descending sort by a field without duplicates put three rows in
\* strictly descending order
C12_Witness ==
    /\ IsWatch(resp) /\ resp.status = 200
    /\ resp.args.sortBy = "Symbol" /\ resp.args.sort = "desc"
    /\ Len(resp.body) = 3
    /\ NoDuplicates(resp.body, "Symbol")
    /\ StrLess(resp.body[3]["Symbol"].s, resp.body[2]["Symbol"].s)
    /\ StrLess(resp.body[2]["Symbol"].s, resp.body[1]["Symbol"].s)

KnownNames == {"india", "usa"}

\* C13: for a watchlist name outside {india, usa} the load yields not-found
\* in every state, reads no file and leaves the watchlist cache unchanged;
\* the names with a cached table are always among {india, usa}.
C13_UnknownName ==
    /\ [](DOMAIN wcache \subseteq KnownNames)
    /\ [][(IsWatch(resp') /\ RespName(resp') \notin KnownNames)
              => /\ resp'.status = 404
                 /\ resp'.body = <<>>
                 /\ wcache' = wcache
                 /\ reads' = reads]_vars

\* an unknown name was refused while both known watchlists were cached
C13_Witness ==
    /\ IsWatch(resp) /\ RespName(resp) = "uk" /\ resp.status = 404
    /\ DOMAIN wcache = KnownNames
    /\ reads = 2

\* C14: once a name has been loaded, every later sequential load of it
\* returns the cached table without reading the file again, even when the
\* file has since changed or gone.
C14_LoadOnce ==
    [][\A n \in DOMAIN wcache :
          (IsWatch(resp') /\ RespName(resp') = n)
              => /\ reads' = reads
                 /\ resp'.status # 404
                 /\ (resp'.status = 200 /\ ~Truthy(resp'.args.sortBy))
                        => resp'.body =
                             SubSeq(wcache[n], RespStart(resp'),
                                    Min(RespEnd(resp'), Len(wcache[n])))]_vars

\* a query was served from the cached table after its file was removed
C14_Witness ==
    /\ IsWatch(resp) /\ RespName(resp) = "india" /\ resp.status = 200
    /\ Len(resp.body) = 3
    /\ DOMAIN wcache = {"india"} /\ reads = 1
    /\ ~files["india.csv"].exists

\* C15: no query changes a cached table: a table already cached is the
\* same after every step, and a table entering the cache has the rows of
\* its file in file order.
C15_QueriesKeepTable ==
    [][\A n \in KnownNames :
          /\ n \in DOMAIN wcache => (n \in DOMAIN wcache' /\ wcache'[n] = wcache[n])
          /\ (n \notin DOMAIN wcache /\ n \in DOMAIN wcache')
                => /\ Len(wcache'[n]) = Len(files[Filenames[n]].rows)
                   /\ \A k \in DOMAIN wcache'[n] :
                         wcache'[n][k]["Symbol"].s = files[Filenames[n]].rows[k][1]]_vars

\* a sorted query reordered its page while the cached table kept the order
\* of the file
C15_Witness ==
    /\ IsWatch(resp) /\ resp.status = 200 /\ RespName(resp) = "india"
    /\ resp.args.sortBy = "Symbol" /\ Len(resp.body) = 3
    /\ resp.body # RespTable(resp)
    /\ files["india.csv"] = ThreeRows
    /\ \A k \in 1..3 : RespTable(resp)[k]["Symbol"].s = ThreeRows.rows[k][1]

\* C16: two requests use the same cache entry iff their (uppercased
\* symbol, period, interval) triples are equal: a request served from the
\* cache is served the entry stored for its own triple, and the triples that
\* have stored an entry have pairwise different keys.
C16_EntryPerTriple ==
    /\ [][(StockStep /\ resp'.log = LogCache)
              => /\ RespTriple(resp') \in DOMAIN stored
                 /\ resp'.body = stored[RespTriple(resp')].data]_vars
    /\ [](\A T1, T2 \in DOMAIN stored :
              CacheKey(T1[1], T1[2], T1[3]) = CacheKey(T2[1], T2[2], T2[3]) => T1 = T2)

\* ---------------------------------- claims on concurrent stock-data requests
\* thread t has completed a request that fetched and stored a series
Fetched(t) == thr[t].pc = "done" /\ thr[t].status = 200 /\ thr[t].issue > 0
\* thread t has completed a request that took the cache-hit path
TookHit(t) == thr[t].pc = "done" /\ thr[t].issue = 0 /\ thr[t].status # 400
FetchedEntry(t) == [data |-> thr[t].data, timestamp |-> thr[t].ets]

\* C17: two interleaved requests for the same key, with no fresh entry, may
\* both invoke the source; once both have completed successfully the cache
\* holds one entry for the key, equal in whole to the entry stored by one of
\* the two.
C17_StampedeOneEntry ==
    \A t1, t2 \in Threads :
        (t1 # t2 /\ Fetched(t1) /\ Fetched(t2) /\ thr[t1].key = thr[t2].key)
            => /\ thr[t1].key \in DOMAIN scache
               /\ scache[thr[t1].key] \in {FetchedEntry(t1), FetchedEntry(t2)}

\* both threads missed at the same instant, both called the source and both
\* stored, with different series
C17_Witness ==
    /\ Fetched(1) /\ Fetched(2) /\ thr[1].key = thr[2].key
    /\ thr[1].checked = thr[2].checked
    /\ thr[1].issue # thr[2].issue
    /\ thr[1].data # thr[2].data
    /\ calls = 2

\* C19 as stated: after two overlapping fetches for one key both succeed,
\* the cache holds the series of the fetch issued to the source last.
C19_LastIssuedWins ==
    \A t1, t2 \in Threads :
        (Fetched(t1) /\ Fetched(t2) /\ thr[t1].key = thr[t2].key
            /\ thr[t1].issue < thr[t2].issue)
            => scache[thr[t1].key].data = thr[t2].data

Stores(t) == thr[t].pc = "fetching" /\ thr'[t].pc = "done" /\ thr'[t].status = 200

\* C19 amended: the entry at a key is the whole result of the fetch that
\* stored last: a successful fetch replaces the entry by its own series and
\* the current time whatever is there, and nothing else changes the cache.
C19_LastStoredWins ==
    [][/\ \A t \in Threads :
             Stores(t) => /\ thr[t].key \in DOMAIN scache'
                          /\ scache'[thr[t].key] =
                                [data |-> thr'[t].data, timestamp |-> now]
       /\ (\A t \in Threads : ~Stores(t)) => scache' = scache]_vars

\* the fetch issued first stored last: the cache holds its series although
\* the fetch issued after it has completed with another series
C19_Witness ==
    \E t1, t2 \in Threads :
        /\ Fetched(t1) /\ Fetched(t2) /\ thr[t1].key = thr[t2].key
        /\ thr[t1].issue < thr[t2].issue
        /\ thr[t1].checked = thr[t2].checked
        /\ thr[t1].data # thr[t2].data
        /\ scache[thr[t1].key].data = thr[t1].data

ReadOk(t) == thr[t].name # "" /\ thr[t].issue > 0

\* C18: under any interleaving each watchlist name is loaded once: no two
\* requests both read its file successfully, and a table stored in the cache
\* for a name is never replaced by another table.
C18_LoadedOnce ==
    /\ [](\A t1, t2 \in Threads :
             (ReadOk(t1) /\ ReadOk(t2) /\ thr[t1].name = thr[t2].name) => t1 = t2)
    /\ [][\A n \in DOMAIN wcache : n \in DOMAIN wcache' /\ wcache'[n] = wcache[n]]_vars

====
